---- MODULE Spec2Model ----
(***************************************************************************)
(* CtrlTree (skins2 tree/list control): the anchor m_firstPos, the         *)
(* selection state machine of handleEvent, the position-variable handler   *)
(* and the frame cache of makeImage, over a VarTree whose items are        *)
(* numbered in document (depth-first pre-) order.                          *)
(*                                                                         *)
(* The model tree (VarTree) is a collaborator whose code is not part of    *)
(* ctrl_tree.cpp; its traversal primitives are modelled from the           *)
(* specification's Traversal Adapter (section 4.1).                        *)
(***************************************************************************)
EXTENDS Integers, Sequences, FiniteSets, TLC

VARIABLES
    parent,          \* parent[i]: the parent of item i, Root for a top-level item
    status,          \* status[i]: "live", "deleted" (m_deleted set), "gone" (removed)
    selected,        \* selected[i]: the item's selected flag
    expanded,        \* expanded[i]: the item's expanded flag
    pos,             \* the position variable, a fraction <<num, den>> or NaN
    geom,            \* rows the control's Position holds; NoPos when getPosition() is NULL
    failRow,         \* the row whose label m_rFont.drawString() fails to draw (0: none)
    m_flat,          \* flat mode (leaves only), fixed at construction
    m_firstPos,      \* the anchor: an item, or End
    m_pLastSelected, \* an item, NULL, or the address of the end sentinel (End)
    m_dontMove,      \* the re-entrancy guard
    m_pImage,        \* the frame cache
    fault,           \* the handler dereferenced end() or a removed item
    ev,              \* the last event handled, with its inputs
    pre              \* the state the last event was handled in

vars == <<parent, status, selected, expanded, pos, geom, failRow, m_flat,
          m_firstPos, m_pLastSelected, m_dontMove, m_pImage, fault, ev, pre>>

\* Bounds of the model.
MaxItems == 3
MaxLeaves == 10
MaxRows == 4
MaxDen == 4
MaxPage == 20

Root == 0
End == -1
NULL == -2
NoPos == -1

N == Len(parent)
Items == 1..N

Min(S) == CHOOSE x \in S : \A y \in S : x <= y
Max(S) == CHOOSE x \in S : \A y \in S : x >= y

RECURSIVE Gcd(_, _)
Gcd(a, b) == IF b = 0 THEN a ELSE Gcd(b, a % b)

RECURSIVE IsAncOrSelf(_, _, _)
IsAncOrSelf(p, a, j) ==
    \/ a = j
    \/ j # Root /\ IsAncOrSelf(p, a, p[j])

\* The trees of n items numbered in document order.
Shapes(n) ==
    { p \in [1..n -> 0..(n - 1)] :
        \A i \in 1..n : p[i] < i /\ (i > 1 => IsAncOrSelf(p, p[i], i - 1)) }

\* n leaves directly under the root.
FlatShape(n) == [i \in 1..n |-> Root]

----------------------------------------------------------------------------
(* VarTree: the traversal adapter.                                         *)

InTree(st, i) == i \in DOMAIN st /\ st[i] # "gone"

\* A reference to an item the model has removed.
Dangling(st, i) == i \in DOMAIN st /\ st[i] = "gone"

Children(st, i) == { j \in DOMAIN st : parent[j] = i /\ st[j] # "gone" }

size(st, i) == Cardinality(Children(st, i))

RECURSIVE Visible(_, _)
Visible(ex, i) ==
    \/ parent[i] = Root
    \/ ex[parent[i]] /\ Visible(ex, parent[i])

\* An item of the active mode's traversal: a leaf in flat mode, an item all
\* of whose ancestors are expanded in hierarchical mode.
Participating(st, ex, i) ==
    /\ InTree(st, i)
    /\ IF m_flat THEN Children(st, i) = {} ELSE Visible(ex, i)

PartSet(st, ex) == { i \in DOMAIN st : Participating(st, ex, i) }

\* m_rTree.begin(): the first child of the root.
Begin(st) ==
    IF Children(st, Root) = {} THEN End ELSE Min(Children(st, Root))

\* m_flat ? m_rTree.firstLeaf() : m_rTree.begin()
Start(st, ex) ==
    IF PartSet(st, ex) = {} THEN End ELSE Min(PartSet(st, ex))

\* m_flat ? getNextLeaf( it ) : getNextVisibleItem( it )
NextIn(P, it) ==
    LET after == { j \in P : j > it }
    IN  IF after = {} THEN End ELSE Min(after)

Next(st, ex, it) == NextIn(PartSet(st, ex), it)

\* m_flat ? getPrevLeaf( it ) : getPrevVisibleItem( it )
Prev(st, ex, it) ==
    LET before == { j \in PartSet(st, ex) : j < it }
    IN  IF before = {} THEN End ELSE Max(before)

\* m_flat ? countLeafs() : visibleItems()
Count(st, ex) == Cardinality(PartSet(st, ex))

\* getRank( it, m_flat ): 1-based, -1 for an item outside the traversal.
Rank(st, ex, it) ==
    LET P == PartSet(st, ex)
    IN  IF it \in P THEN Cardinality({ j \in P : j <= it }) ELSE -1

\* m_flat ? getLeaf( n ) : getVisibleItem( n )
ItemAt(st, ex, n) ==
    LET P == PartSet(st, ex)
    IN  IF n < 1 \/ n > Cardinality(P) THEN End
        ELSE CHOOSE i \in P : Cardinality({ j \in P : j <= i }) = n

\* ensureExpanded( it ): every ancestor of the item is expanded.
EnsureExpanded(ex, it) ==
    [ i \in DOMAIN ex |->
        IF i # it /\ IsAncOrSelf(parent, i, it) THEN TRUE ELSE ex[i] ]

----------------------------------------------------------------------------
(* VarPercent: the position variable, kept as a fraction.                  *)

NaN == <<0, 0>>

Frac(a, b) ==
    IF b = 0 THEN NaN
    ELSE LET s == IF b < 0 THEN -1 ELSE 1
             g == Gcd(IF a < 0 THEN -a ELSE a, IF b < 0 THEN -b ELSE b)
         IN  <<(s * a) \div g, (s * b) \div g>>

\* VarPercent::set clamps into [0, 1]; no comparison holds of a NaN.
Clamp(p) ==
    IF p = NaN THEN NaN
    ELSE IF p[1] < 0 THEN <<0, 1>>
    ELSE IF p[1] > p[2] THEN <<1, 1>>
    ELSE p

IsPow2(d) == d \in {1, 2, 4, 8, 16, 32, 64}


\* lrint( (1.0 - rVarPos.get()) * (double)excessItems ): the values the call
\* can return.  The variable holds a float, so a tie of the exact product
\* is a tie of the computed one only for a dyadic value, where lrint rounds
\* to even; the conversion of a NaN is unspecified.
LrintSet(p, excess) ==
    IF p = NaN THEN {0, -(2 ^ 31)}
    ELSE LET a == (p[2] - p[1]) * excess
             q == a \div p[2]
             r == a % p[2]
         IN  IF 2 * r < p[2] THEN {q}
             ELSE IF 2 * r > p[2] THEN {q + 1}
             ELSE IF IsPow2(p[2]) THEN {IF q % 2 = 0 THEN q ELSE q + 1}
             ELSE {q, q + 1}

----------------------------------------------------------------------------
(* CtrlTree                                                                *)

\* CtrlTree::maxItems
maxItems == geom

NoImage == [kind |-> "null", rows |-> <<>>, hl |-> {}]

\* The rows makeImage draws from the anchor: after each row it advances at
\* least once and then past every deleted item.
RECURSIVE SkipDeleted(_, _, _)
SkipDeleted(P, st, it) ==
    IF it # End /\ st[it] = "deleted"
    THEN SkipDeleted(P, st, NextIn(P, it))
    ELSE it

RECURSIVE RowsFrom(_, _, _, _)
RowsFrom(P, st, it, k) ==
    IF k <= 0 \/ it = End THEN <<>>
    ELSE <<it>> \o RowsFrom(P, st, SkipDeleted(P, st, NextIn(P, it)), k - 1)

RenderRows(st, ex, it, k) == RowsFrom(PartSet(st, ex), st, it, k)

\* CtrlTree::makeImage: the frame cache afterwards, and whether the rebuild
\* deleted an already deleted frame or read a removed item.
MakeImage(img, st, sel, ex, first) ==
    IF geom = NoPos
    THEN [img   |-> IF img.kind = "null" THEN img
                    ELSE [kind |-> "freed", rows |-> img.rows, hl |-> img.hl],
          fault |-> img.kind = "freed"]
    ELSE IF Dangling(st, first)
    THEN [img |-> [kind |-> "partial", rows |-> <<>>, hl |-> {}], fault |-> TRUE]
    ELSE LET rows == RenderRows(st, ex, first, geom)
             hl   == { i \in DOMAIN rows : sel[rows[i]] }
         IN  [img   |-> IF failRow \in DOMAIN rows
                        THEN [kind |-> "partial",
                              rows |-> SubSeq(rows, 1, failRow - 1), hl |-> hl]
                        ELSE [kind |-> "frame", rows |-> rows, hl |-> hl],
              fault |-> img.kind = "freed"]

\* CtrlTree::onUpdate( Subject<VarPercent>& ): the anchors the handler can
\* resolve from the position value p.
ResolveAnchor(st, ex, p) ==
    LET excessItems == Count(st, ex) - maxItems
    IN  IF excessItems > 0
        THEN { ItemAt(st, ex, k + 1) : k \in LrintSet(p, excessItems) }
        ELSE { Start(st, ex) }

\* The control after the position variable notified it of the value p.
OnUpdatePercent(img, st, sel, ex, first, dontMove, p) ==
    IF dontMove THEN { [first |-> first, img |-> img, fault |-> FALSE] }
    ELSE { IF it # first
           THEN LET mk == MakeImage(img, st, sel, ex, it)
                IN  [first |-> it, img |-> mk.img, fault |-> mk.fault]
           ELSE [first |-> first, img |-> img, fault |-> FALSE]
           : it \in ResolveAnchor(st, ex, p) }

\* rVarPos.set( v ): the value is clamped and, when it differs from the
\* stored one, stored, and the control is notified.
SetPos(img, st, sel, ex, first, dontMove, old, v) ==
    LET p == Clamp(v)
    IN  IF p = old /\ p # NaN
        THEN { [pos |-> old, first |-> first, img |-> img, fault |-> FALSE] }
        ELSE { [pos |-> p, first |-> r.first, img |-> r.img, fault |-> r.fault]
               : r \in OnUpdatePercent(img, st, sel, ex, first, dontMove, p) }

Snapshot ==
    [status |-> status, selected |-> selected, expanded |-> expanded,
     pos |-> pos, geom |-> geom, first |-> m_firstPos,
     last |-> m_pLastSelected, img |-> m_pImage]

\* The record of an event: the item it hit or acted on, its row and flag
\* inputs, and the items whose activation action it invoked, in order.
EventActs(op, item, row, flag, acts) ==
    [op |-> op, item |-> item, row |-> row, flag |-> flag, acts |-> acts]

Event(op, item, row, flag) == EventActs(op, item, row, flag, <<>>)

\* The walk of lines 179-185, from the anchor f back to the first item that
\* is not deleted or to the traversal start; the second component tells
\* that the walk read isDeleted() through end() or a removed item.
RECURSIVE WalkBack(_, _, _)
WalkBack(st, ex, f) ==
    IF ~InTree(st, f) THEN <<f, TRUE>>
    ELSE IF st[f] = "deleted" /\ f # Start(st, ex)
    THEN WalkBack(st, ex, Prev(st, ex, f))
    ELSE <<f, FALSE>>

\* Lines 186-187: a start that is itself deleted is replaced by begin().
HealAnchor(st, ex, f) ==
    LET w == WalkBack(st, ex, f)
    IN  IF w[2] THEN w
        ELSE IF st[w[1]] = "deleted" THEN <<Begin(st), FALSE>>
        ELSE w

\* CtrlTree::isItemVisible
isItemVisible(st, ex, first, id) ==
    LET rank1 == Rank(st, ex, first)
        rank2 == Rank(st, ex, id)
    IN  rank2 >= rank1 /\ rank2 <= rank1 + maxItems - 1

\* Lines 175-194: the control after a DeleteItem notification naming id.
HandleDelete(img, st, sel, ex, first, id) ==
    LET h  == HealAnchor(st, ex, first)
        mk == IF ~h[2] /\ (h[1] # first \/ isItemVisible(st, ex, h[1], id))
              THEN MakeImage(img, st, sel, ex, h[1])
              ELSE [img |-> img, fault |-> h[2]]
    IN  [first |-> h[1], img |-> mk.img, fault |-> mk.fault]

\* The model marks an item deleted (the notification follows).
MarkDeleted(i) ==
    /\ ~fault
    /\ i \in Items
    /\ status[i] = "live"
    /\ status' = [status EXCEPT ![i] = "deleted"]
    /\ ev' = Event("Mark", i, 0, FALSE)
    /\ UNCHANGED <<parent, selected, expanded, pos, geom, failRow, m_flat,
                   m_firstPos, m_pLastSelected, m_dontMove, m_pImage, fault, pre>>

\* CtrlTree::onUpdate( Subject<VarTree, tree_update>& ), arg->type == DeleteItem
OnDeleteItem(id) ==
    /\ ~fault
    /\ id \in Items
    /\ LET r == HandleDelete(m_pImage, status, selected, expanded, m_firstPos, id)
       IN  /\ m_firstPos' = r.first
           /\ m_pImage' = r.img
           /\ fault' = r.fault
    /\ ev' = Event("DeleteItem", id, 0, FALSE)
    /\ pre' = Snapshot
    /\ UNCHANGED <<parent, status, selected, expanded, pos, geom, failRow,
                   m_flat, m_pLastSelected, m_dontMove>>


\* 1.0 - a / b in floating point: 0/0 is a NaN, and a division of a nonzero
\* number by zero an infinity that set() clamps.
OneMinus(a, b) ==
    IF b # 0 THEN Frac(b - a, b)
    ELSE IF a = 0 THEN NaN
    ELSE IF a > 0 THEN Frac(-1, 1) ELSE Frac(2, 1)

\* The value handleEvent writes to the position variable after an
\* expansion change (lines 648-665): 1.0 - iFirst / indexMax, where iFirst
\* counts the items before the anchor (all of them when the traversal does
\* not meet the anchor).
RecomputedPos(st, ex, first) ==
    LET iFirst   == IF first \in PartSet(st, ex)
                    THEN Rank(st, ex, first) - 1
                    ELSE Count(st, ex)
        indexMax == Count(st, ex) - 1
    IN  OneMinus(iFirst, indexMax)

\* The values an external writer (a scrollbar) gives the position variable.
Fracs ==
    { Frac(x[1], x[2]) : x \in { y \in (0..MaxDen) \X (1..MaxDen) : y[1] <= y[2] } }

\* m_rTree.getPositionVar().set( v ) from outside the control.
SetPosition(v) ==
    /\ ~fault
    /\ \E r \in SetPos(m_pImage, status, selected, expanded, m_firstPos,
                       m_dontMove, pos, v) :
        /\ pos' = r.pos
        /\ m_firstPos' = r.first
        /\ m_pImage' = r.img
        /\ fault' = r.fault
    /\ ev' = Event("SetPosition", 0, 0, FALSE)
    /\ pre' = Snapshot
    /\ UNCHANGED <<parent, status, selected, expanded, geom, failRow, m_flat,
                   m_pLastSelected, m_dontMove>>

\* CtrlTree::onResize, the layout having given the control h rows.
OnResize(h) ==
    /\ ~fault
    /\ h \in 0..MaxRows
    /\ h # geom
    /\ geom' = h
    /\ \E it \in { IF Count(status, expanded) - h > 0
                   THEN ItemAt(status, expanded, k + 1)
                   ELSE Start(status, expanded)
                   : k \in LrintSet(pos, Max({1, Count(status, expanded) - h})) } :
        /\ m_firstPos' = it
        /\ LET rows == RenderRows(status, expanded, it, h)
               hl   == { i \in DOMAIN rows : selected[rows[i]] }
           IN  /\ m_pImage' =
                    IF Dangling(status, it)
                    THEN [kind |-> "partial", rows |-> <<>>, hl |-> {}]
                    ELSE IF failRow \in DOMAIN rows
                    THEN [kind |-> "partial",
                          rows |-> SubSeq(rows, 1, failRow - 1), hl |-> hl]
                    ELSE [kind |-> "frame", rows |-> rows, hl |-> hl]
               /\ fault' = (m_pImage.kind = "freed"
                            \/ Dangling(status, it))
    /\ ev' = Event("Resize", 0, h, FALSE)
    /\ pre' = Snapshot
    /\ UNCHANGED <<parent, status, selected, expanded, pos, failRow, m_flat,
                   m_pLastSelected, m_dontMove>>

\* CtrlTree::onPositionChange: the frame is rebuilt.
OnPositionChange ==
    /\ ~fault
    /\ \E mk \in { MakeImage(m_pImage, status, selected, expanded, m_firstPos) } :
        /\ m_pImage' = mk.img
        /\ fault' = mk.fault
    /\ ev' = Event("PositionChange", 0, 0, FALSE)
    /\ pre' = Snapshot
    /\ UNCHANGED <<parent, status, selected, expanded, pos, geom, failRow,
                   m_flat, m_firstPos, m_pLastSelected, m_dontMove>>

\* The layout takes the control's position away: getPosition() returns
\* NULL from now on.
UnsetLayout ==
    /\ ~fault
    /\ geom # NoPos
    /\ geom' = NoPos
    /\ ev' = Event("UnsetLayout", 0, 0, FALSE)
    /\ pre' = Snapshot
    /\ UNCHANGED <<parent, status, selected, expanded, pos, failRow, m_flat,
                   m_firstPos, m_pLastSelected, m_dontMove, m_pImage, fault>>

\* From now on m_rFont.drawString() returns NULL for the label of row k of
\* a frame (line 823); k = 0: every label is drawn.
FontFails(k) ==
    /\ ~fault
    /\ k # failRow
    /\ failRow' = k
    /\ ev' = Event("FontFails", 0, k, FALSE)
    /\ pre' = Snapshot
    /\ UNCHANGED <<parent, status, selected, expanded, pos, geom, m_flat,
                   m_firstPos, m_pLastSelected, m_dontMove, m_pImage, fault>>

\* Lines 645-667, reached with bChangedPosition set: the recomputed value
\* is written with m_dontMove set, and the guard is cleared again.
FixPosition(img, st, sel, ex, first, old) ==
    SetPos(img, st, sel, ex, first, TRUE, old, RecomputedPos(st, ex, first))

\* CtrlTree::findItemAtPos
RECURSIVE WalkRows(_, _, _)
WalkRows(P, it, k) ==
    IF it = End \/ k = 0 THEN it ELSE WalkRows(P, NextIn(P, it), k - 1)

findItemAtPos(st, ex, first, k) == WalkRows(PartSet(st, ex), first, k)

\* CtrlTree::ensureVisible with the window one row longer.
ensureVisibleWide(img, st, sel, ex, first, dontMove, old, item) ==
    LET ex2            == EnsureExpanded(ex, item)
        firstPosIndex  == Rank(st, ex2, first) - 1
        focusItemIndex == Rank(st, ex2, item) - 1
        indexMax       == Count(st, ex2) - 1
    IN  IF focusItemIndex < firstPosIndex
           \/ focusItemIndex > firstPosIndex + maxItems
        THEN { [ex |-> ex2, pos |-> r.pos, first |-> r.first, img |-> r.img,
                fault |-> r.fault, scrolled |-> TRUE]
               : r \in SetPos(img, st, sel, ex2, first, dontMove, old,
                              OneMinus(focusItemIndex, indexMax)) }
        ELSE { [ex |-> ex2, pos |-> old, first |-> first, img |-> img,
                fault |-> FALSE, scrolled |-> FALSE] }

\* CtrlTree::ensureVisible: the states it can leave, with what it returns.
ensureVisible(img, st, sel, ex, first, dontMove, old, item) ==
    LET ex2            == EnsureExpanded(ex, item)
        firstPosIndex  == Rank(st, ex2, first) - 1
        focusItemIndex == Rank(st, ex2, item) - 1
        indexMax       == Count(st, ex2) - 1
    IN  IF focusItemIndex < firstPosIndex
           \/ focusItemIndex > firstPosIndex + maxItems - 1
        THEN { [ex |-> ex2, pos |-> r.pos, first |-> r.first, img |-> r.img,
                fault |-> r.fault, scrolled |-> TRUE]
               : r \in SetPos(img, st, sel, ex2, first, dontMove, old,
                              OneMinus(focusItemIndex, indexMax)) }
        ELSE { [ex |-> ex2, pos |-> old, first |-> first, img |-> img,
                fault |-> FALSE, scrolled |-> FALSE] }

\* A range loop that opens the range only at the last selected item and
\* closes it only at the clicked one: what the symmetry of the handler's
\* loop is compared against.
RECURSIVE ShiftLoopFromLast(_, _, _, _, _, _)
ShiftLoopFromLast(P, sel, it, itClicked, last, select) ==
    IF it = End THEN sel
    ELSE LET selectNow  == select \/ it = last
             nextSelect == IF it = itClicked THEN FALSE
                           ELSE IF it = last THEN TRUE ELSE select
         IN  ShiftLoopFromLast(P, [sel EXCEPT ![it] = selectNow], NextIn(P, it),
                               itClicked, last, nextSelect)

\* The loop of lines 547-567 from the item it on, select being the flag
\* "the current item must be selected".
RECURSIVE ShiftLoop(_, _, _, _, _, _)
ShiftLoop(P, sel, it, itClicked, last, select) ==
    IF it = End THEN sel
    ELSE LET hit        == it = itClicked \/ it = last
             selectNow  == select \/ hit
             nextSelect == IF hit THEN ~select ELSE select
         IN  ShiftLoop(P, [sel EXCEPT ![it] = selectNow], NextIn(P, it),
                       itClicked, last, nextSelect)

\* The selected flags after "mouse:left:down:shift" on the row yPos.
ShiftSelect(st, sel, ex, first, last, yPos) ==
    ShiftLoop(PartSet(st, ex), sel, Start(st, ex),
              findItemAtPos(st, ex, first, yPos), last, FALSE)

\* handleEvent, "mouse:left:down:shift" on the row yPos.
MouseShift(yPos) ==
    /\ ~fault
    /\ LET sel2 == ShiftSelect(status, selected, expanded, m_firstPos,
                               m_pLastSelected, yPos)
           mk   == MakeImage(m_pImage, status, sel2, expanded, m_firstPos)
       IN  /\ selected' = sel2
           /\ m_pImage' = mk.img
           /\ fault' = (mk.fault \/ geom = NoPos
                        \/ (Dangling(status, m_firstPos) /\ yPos # 0))
    /\ ev' = Event("MouseShift",
                   findItemAtPos(status, expanded, m_firstPos, yPos), yPos, FALSE)
    /\ pre' = Snapshot
    /\ UNCHANGED <<parent, status, expanded, pos, geom, failRow, m_flat,
                   m_firstPos, m_pLastSelected, m_dontMove>>

\* The loop of lines 502-522 from the item it on: the loop of the shift
\* press, each item keeping a selected flag it already has.
RECURSIVE CtrlShiftLoop(_, _, _, _, _, _)
CtrlShiftLoop(P, sel, it, itClicked, last, select) ==
    IF it = End THEN sel
    ELSE LET hit        == it = itClicked \/ it = last
             selectNow  == select \/ hit
             nextSelect == IF hit THEN ~select ELSE select
         IN  CtrlShiftLoop(P, [sel EXCEPT ![it] = sel[it] \/ selectNow],
                           NextIn(P, it), itClicked, last, nextSelect)

\* handleEvent, "mouse:left:down:ctrl,shift" on the row yPos.
MouseCtrlShift(yPos) ==
    /\ ~fault
    /\ \E it \in { findItemAtPos(status, expanded, m_firstPos, yPos) } :
        \E sel2 \in { CtrlShiftLoop(PartSet(status, expanded), selected,
                                    Start(status, expanded), it,
                                    m_pLastSelected, FALSE) } :
          \E mk \in { MakeImage(m_pImage, status, sel2, expanded, m_firstPos) } :
            /\ selected' = sel2
            /\ m_pImage' = mk.img
            /\ fault' = (mk.fault \/ geom = NoPos
                         \/ (Dangling(status, m_firstPos) /\ yPos # 0))
            /\ ev' = Event("MouseCtrlShift", it, yPos, FALSE)
    /\ pre' = Snapshot
    /\ UNCHANGED <<parent, status, expanded, pos, geom, failRow, m_flat,
                   m_firstPos, m_pLastSelected, m_dontMove>>

\* A toggle that only ever selects.
SetSelected(sel, it) == [sel EXCEPT ![it] = TRUE]

\* it->toggleSelected()
ToggleSelected(sel, it) == [sel EXCEPT ![it] = ~sel[it]]

\* handleEvent, "mouse:left:down:ctrl" on the row yPos.
MouseCtrl(yPos) ==
    /\ ~fault
    /\ \E it \in { findItemAtPos(status, expanded, m_firstPos, yPos) } :
        \E sel2 \in { IF it # End THEN ToggleSelected(selected, it) ELSE selected } :
          \E mk \in { MakeImage(m_pImage, status, sel2, expanded, m_firstPos) } :
            /\ selected' = sel2
            /\ m_pLastSelected' = IF it # End THEN it ELSE m_pLastSelected
            /\ m_pImage' = mk.img
            /\ fault' = (mk.fault \/ geom = NoPos
                         \/ (Dangling(status, m_firstPos) /\ yPos # 0))
            /\ ev' = Event("MouseCtrl", it, yPos, FALSE)
    /\ pre' = Snapshot
    /\ UNCHANGED <<parent, status, expanded, pos, geom, failRow, m_flat,
                   m_firstPos, m_dontMove>>

\* handleEvent, "mouse:left:dblclick" on the row yPos.
MouseDblClick(yPos) ==
    /\ ~fault
    /\ \E it \in { findItemAtPos(status, expanded, m_firstPos, yPos) } :
        \E mk \in { MakeImage(m_pImage, status, selected, expanded, m_firstPos) } :
            /\ m_pImage' = mk.img
            /\ fault' = (mk.fault \/ geom = NoPos
                         \/ (Dangling(status, m_firstPos) /\ yPos # 0))
            /\ ev' = EventActs("MouseDblClick", it, yPos, FALSE,
                               IF it # End THEN <<it>> ELSE <<>>)
    /\ pre' = Snapshot
    /\ UNCHANGED <<parent, status, selected, expanded, pos, geom, failRow,
                   m_flat, m_firstPos, m_pLastSelected, m_dontMove>>

\* A clearing step that deselects the last selected item only.
ClearLastOnly(st, sel, ex) ==
    [ i \in DOMAIN sel |-> IF i = m_pLastSelected THEN FALSE ELSE sel[i] ]

\* The loop of lines 590-596: every item of the traversal is deselected.
ClearSelection(st, sel, ex) ==
    [ i \in DOMAIN sel |-> IF i \in PartSet(st, ex) THEN FALSE ELSE sel[i] ]

\* handleEvent, "mouse:left:down" on the row yPos; onIcon tells that xPos
\* lies in the band of the item's disclosure icon.
MousePlain(yPos, onIcon) ==
    /\ ~fault
    /\ LET it     == findItemAtPos(status, expanded, m_firstPos, yPos)
           toggle == it # End /\ size(status, it) > 0 /\ onIcon /\ ~m_flat
           ex2    == IF toggle THEN [expanded EXCEPT ![it] = ~expanded[it]]
                     ELSE expanded
           sel2   == IF it # End /\ ~toggle
                     THEN [ClearSelection(status, selected, expanded)
                              EXCEPT ![it] = TRUE]
                     ELSE selected
           mk     == MakeImage(m_pImage, status, sel2, ex2, m_firstPos)
       IN  /\ expanded' = ex2
           /\ selected' = sel2
           /\ m_pLastSelected' = IF it # End /\ ~toggle THEN it ELSE m_pLastSelected
           /\ \E r \in IF toggle
                       THEN FixPosition(mk.img, status, sel2, ex2, m_firstPos, pos)
                       ELSE { [pos |-> pos, first |-> m_firstPos, img |-> mk.img,
                               fault |-> FALSE] } :
                /\ pos' = r.pos
                /\ m_firstPos' = r.first
                /\ m_pImage' = r.img
                /\ fault' = (r.fault \/ mk.fault \/ geom = NoPos
                             \/ Dangling(status, m_firstPos))
           /\ ev' = Event("MousePlain", it, yPos, onIcon)
    /\ pre' = Snapshot
    /\ UNCHANGED <<parent, status, geom, failRow, m_flat, m_dontMove>>

\* it->parent()->begin(): the first child of the item's parent.
FirstSibling(st, it) == Min(Children(st, parent[it]))

\* The loop of lines 365-388 for KEY_UP, from the item it on.
RECURSIVE UpLoop(_, _, _, _, _, _)
UpLoop(P, st, it, sel, last, toShow) ==
    IF it = End THEN [sel |-> sel, last |-> last, toShow |-> toShow]
    ELSE LET next            == NextIn(P, it)
             moves           == it # FirstSibling(st, it) \/ it # last
             nextWasSelected == next = last
         IN  UpLoop(P, st, next,
                    IF moves THEN [sel EXCEPT ![it] = nextWasSelected] ELSE sel,
                    IF moves /\ nextWasSelected THEN it ELSE last,
                    IF moves /\ nextWasSelected THEN it ELSE toShow)

\* The KEY_DOWN loop without the statement of lines 409-414 that keeps the
\* last item of the traversal selected.
RECURSIVE DownLoopNoLastFix(_, _, _, _, _, _, _)
DownLoopNoLastFix(P, st, it, sel, last, previousWasSelected, toShow) ==
    IF it = End THEN [sel |-> sel, last |-> last, toShow |-> toShow]
    ELSE LET next  == NextIn(P, it)
             moves == ~(next = End /\ parent[it] = Root) \/ it # last
             sel1  == IF moves THEN [sel EXCEPT ![it] = previousWasSelected]
                      ELSE sel
             last1 == IF previousWasSelected THEN it ELSE last
         IN  DownLoopNoLastFix(P, st, next, sel1, last1,
                               IF previousWasSelected THEN FALSE ELSE it = last,
                               IF previousWasSelected THEN it ELSE toShow)

\* The loop of lines 365-416 for KEY_DOWN, from the item it on.  The
\* iterator next equals it->parent()->end() only when it is the last child
\* of the root and the traversal ends after it.
RECURSIVE DownLoop(_, _, _, _, _, _, _)
DownLoop(P, st, it, sel, last, previousWasSelected, toShow) ==
    IF it = End THEN [sel |-> sel, last |-> last, toShow |-> toShow]
    ELSE LET next  == NextIn(P, it)
             moves == ~(next = End /\ parent[it] = Root) \/ it # last
             sel1  == IF moves THEN [sel EXCEPT ![it] = previousWasSelected]
                      ELSE sel
             last1 == IF previousWasSelected THEN it ELSE last
             sel2  == IF next = End /\ it = last1
                      THEN [sel1 EXCEPT ![it] = TRUE] ELSE sel1
         IN  DownLoop(P, st, next, sel2, last1,
                      IF previousWasSelected THEN FALSE ELSE it = last,
                      IF previousWasSelected THEN it ELSE toShow)

\* A KEY_RIGHT loop that expands a collapsed item and in the same step hands
\* selection to its first child.
RECURSIVE RightLoopEntersChild(_, _, _, _, _, _, _)
RightLoopEntersChild(st, it, sel, ex, last, acts, changed) ==
    IF it = End
    THEN [sel |-> sel, ex |-> ex, last |-> last, acts |-> acts, changed |-> changed]
    ELSE IF it # last
    THEN RightLoopEntersChild(st, Next(st, ex, it), sel, ex, last, acts, changed)
    ELSE IF size(st, it) > 0
    THEN LET child == Min(Children(st, it))
             ex1   == [ex EXCEPT ![it] = TRUE]
         IN  RightLoopEntersChild(st, End,
                                  [sel EXCEPT ![it] = FALSE, ![child] = TRUE],
                                  ex1, child, acts, ~ex[it])
    ELSE IF ex[it]
    THEN RightLoopEntersChild(st, Next(st, ex, it), sel, ex, last,
                              Append(acts, it), changed)
    ELSE LET ex1 == [ex EXCEPT ![it] = TRUE]
         IN  RightLoopEntersChild(st, Next(st, ex1, it), sel, ex1, last, acts, TRUE)

\* The loop of lines 365-441 for KEY_RIGHT, from the item it on; the
\* traversal follows the expansion flags as the loop changes them.
RECURSIVE RightLoop(_, _, _, _, _, _, _)
RightLoop(st, it, sel, ex, last, acts, changed) ==
    IF it = End
    THEN [sel |-> sel, ex |-> ex, last |-> last, acts |-> acts, changed |-> changed]
    ELSE IF it # last
    THEN RightLoop(st, Next(st, ex, it), sel, ex, last, acts, changed)
    ELSE IF ex[it] /\ size(st, it) > 0
    THEN LET child == Min(Children(st, it))
         IN  RightLoop(st, Next(st, ex, it),
                       [sel EXCEPT ![it] = FALSE, ![child] = TRUE],
                       ex, child, acts, changed)
    ELSE IF ex[it]
    THEN RightLoop(st, Next(st, ex, it), sel, ex, last, Append(acts, it), changed)
    ELSE LET ex1 == [ex EXCEPT ![it] = TRUE]
         IN  RightLoop(st, Next(st, ex1, it), sel, ex1, last, acts, TRUE)

\* The KEY_LEFT loop without the statement of line 456 that deselects the
\* item being left.
RECURSIVE LeftLoopKeepsChild(_, _, _, _, _, _, _)
LeftLoopKeepsChild(st, it, sel, ex, last, acts, changed) ==
    IF it = End
    THEN [sel |-> sel, ex |-> ex, last |-> last, acts |-> acts, changed |-> changed]
    ELSE IF it # last
    THEN LeftLoopKeepsChild(st, Next(st, ex, it), sel, ex, last, acts, changed)
    ELSE IF ex[it] /\ size(st, it) > 0
    THEN LET ex1 == [ex EXCEPT ![it] = FALSE]
         IN  LeftLoopKeepsChild(st, Next(st, ex1, it), sel, ex1, last, acts, TRUE)
    ELSE IF parent[it] # Root
    THEN LeftLoopKeepsChild(st, Next(st, ex, it),
                            [sel EXCEPT ![parent[it]] = TRUE],
                            ex, parent[it], acts, changed)
    ELSE LeftLoopKeepsChild(st, Next(st, ex, it), sel, ex, last, acts, changed)

\* The loop of lines 365-462 for KEY_LEFT, from the item it on.
RECURSIVE LeftLoop(_, _, _, _, _, _, _)
LeftLoop(st, it, sel, ex, last, acts, changed) ==
    IF it = End
    THEN [sel |-> sel, ex |-> ex, last |-> last, acts |-> acts, changed |-> changed]
    ELSE IF it # last
    THEN LeftLoop(st, Next(st, ex, it), sel, ex, last, acts, changed)
    ELSE IF ex[it] /\ size(st, it) > 0
    THEN LET ex1 == [ex EXCEPT ![it] = FALSE]
         IN  LeftLoop(st, Next(st, ex1, it), sel, ex1, last, acts, TRUE)
    ELSE IF parent[it] # Root
    THEN LeftLoop(st, Next(st, ex, it),
                  [sel EXCEPT ![it] = FALSE, ![parent[it]] = TRUE],
                  ex, parent[it], acts, changed)
    ELSE LeftLoop(st, Next(st, ex, it), sel, ex, last, acts, changed)

\* Lines 472-476 and 645-667: ensureVisible( toShow ) when an item is to be
\* shown (toShow # NULL), the redraw, and the position fix when an
\* expansion flag changed.
KeyTail(op, sel2, ex2, last2, toShow, changed, acts) ==
    \E r \in IF toShow # NULL
             THEN ensureVisible(m_pImage, status, sel2, ex2, m_firstPos,
                                m_dontMove, pos, toShow)
             ELSE { [ex |-> ex2, pos |-> pos, first |-> m_firstPos,
                     img |-> m_pImage, fault |-> FALSE, scrolled |-> FALSE] } :
        LET mk == MakeImage(r.img, status, sel2, r.ex, r.first)
        IN  \E f \in IF changed
                     THEN FixPosition(mk.img, status, sel2, r.ex, r.first, r.pos)
                     ELSE { [pos |-> r.pos, first |-> r.first, img |-> mk.img,
                             fault |-> FALSE] } :
                /\ selected' = sel2
                /\ expanded' = r.ex
                /\ m_pLastSelected' = last2
                /\ pos' = f.pos
                /\ m_firstPos' = f.first
                /\ m_pImage' = f.img
                /\ fault' = (r.fault \/ mk.fault \/ f.fault)
                /\ ev' = EventActs(op, m_pLastSelected, 0, r.scrolled, acts)
                /\ pre' = Snapshot
                /\ UNCHANGED <<parent, status, geom, failRow, m_flat, m_dontMove>>

\* handleEvent, "key:down" with KEY_UP
KeyUp ==
    /\ ~fault
    /\ LET r == UpLoop(PartSet(status, expanded), status,
                       Start(status, expanded), selected, m_pLastSelected, NULL)
       IN  KeyTail("KeyUp", r.sel, expanded, r.last, r.toShow, FALSE, <<>>)

\* handleEvent, "key:down" with KEY_DOWN
KeyDown ==
    /\ ~fault
    /\ LET r == DownLoop(PartSet(status, expanded), status,
                         Start(status, expanded), selected, m_pLastSelected,
                         FALSE, NULL)
       IN  KeyTail("KeyDown", r.sel, expanded, r.last, r.toShow, FALSE, <<>>)

\* handleEvent, "key:down" with KEY_RIGHT
KeyRight ==
    /\ ~fault
    /\ LET r == RightLoop(status, Start(status, expanded), selected, expanded,
                          m_pLastSelected, <<>>, FALSE)
       IN  KeyTail("KeyRight", r.sel, r.ex, r.last, NULL, r.changed, r.acts)

\* handleEvent, "key:down" with KEY_LEFT
KeyLeft ==
    /\ ~fault
    /\ LET r == LeftLoop(status, Start(status, expanded), selected, expanded,
                         m_pLastSelected, <<>>, FALSE)
       IN  KeyTail("KeyLeft", r.sel, r.ex, r.last, NULL, r.changed, r.acts)

\* A page walk that makes one step fewer.
RECURSIVE PageWalkShort(_, _, _, _)
PageWalkShort(P, it, i, needShow) ==
    IF i <= 0 THEN [it |-> it, needShow |-> needShow]
    ELSE LET next == NextIn(P, it)
         IN  IF next = End THEN [it |-> it, needShow |-> needShow]
             ELSE PageWalkShort(P, next, i - 1, TRUE)

\* The loop of lines 318-331: i + 1 steps forward from it, stopping on the
\* item before end().
RECURSIVE PageWalk(_, _, _, _)
PageWalk(P, it, i, needShow) ==
    IF i < 0 THEN [it |-> it, needShow |-> needShow]
    ELSE LET next == NextIn(P, it)
         IN  IF next = End THEN [it |-> it, needShow |-> needShow]
             ELSE PageWalk(P, next, i - 1, TRUE)

\* (int)(maxItems()*1.5): the product truncated towards zero.
PageStep == IF maxItems >= 0 THEN (3 * maxItems) \div 2
            ELSE -((3 * (-maxItems)) \div 2)

\* handleEvent, "key:down" with KEY_PAGEDOWN.  The event records the item
\* ensureVisible was called on, NULL when it was not called.
KeyPageDown ==
    /\ ~fault
    /\ \E w \in { PageWalk(PartSet(status, expanded), m_firstPos, PageStep, FALSE) } :
        IF w.needShow
        THEN \E r \in ensureVisible(m_pImage, status, selected, expanded,
                                    m_firstPos, m_dontMove, pos, w.it) :
               \E mk \in { MakeImage(r.img, status, selected, r.ex, r.first) } :
                 /\ expanded' = r.ex
                 /\ pos' = r.pos
                 /\ m_firstPos' = r.first
                 /\ m_pImage' = mk.img
                 /\ fault' = (r.fault \/ mk.fault)
                 /\ ev' = Event("KeyPageDown", w.it, 0, r.scrolled)
        ELSE /\ ev' = Event("KeyPageDown", NULL, 0, FALSE)
             /\ UNCHANGED <<expanded, pos, m_firstPos, m_pImage, fault>>
    /\ pre' = Snapshot
    /\ UNCHANGED <<parent, status, selected, geom, failRow, m_flat,
                   m_pLastSelected, m_dontMove>>

\* maxItems()/2: the quotient truncated towards zero.
PageHalf == IF maxItems >= 0 THEN maxItems \div 2
            ELSE -((-maxItems) \div 2)

\* The loop of lines 343-352: steps back from it while i >= maxItems()/2,
\* stopping on the traversal start.  The second component tells that the
\* walk asked for the item before end().
RECURSIVE PageBack(_, _, _, _)
PageBack(st, ex, it, i) ==
    IF i < PageHalf THEN [it |-> it, fault |-> FALSE]
    ELSE IF it = End THEN [it |-> End, fault |-> TRUE]
    ELSE LET prev == Prev(st, ex, it)
         IN  IF prev = Start(st, ex) THEN [it |-> prev, fault |-> FALSE]
             ELSE PageBack(st, ex, prev, i - 1)

\* handleEvent, "key:down" with KEY_PAGEUP.  The event records the item
\* ensureVisible was called on; called on end(), ensureExpanded reads the
\* parent of the sentinel (fault).
KeyPageUp ==
    /\ ~fault
    /\ \E w \in { PageBack(status, expanded, m_firstPos, maxItems) } :
        IF w.it = End
        THEN /\ fault' = TRUE
             /\ ev' = Event("KeyPageUp", End, 0, FALSE)
             /\ UNCHANGED <<expanded, pos, m_firstPos, m_pImage>>
        ELSE \E r \in ensureVisible(m_pImage, status, selected, expanded,
                                    m_firstPos, m_dontMove, pos, w.it) :
               \E mk \in { MakeImage(r.img, status, selected, r.ex, r.first) } :
                 /\ expanded' = r.ex
                 /\ pos' = r.pos
                 /\ m_firstPos' = r.first
                 /\ m_pImage' = mk.img
                 /\ fault' = (w.fault \/ r.fault \/ mk.fault)
                 /\ ev' = Event("KeyPageUp", w.it, 0, r.scrolled)
    /\ pre' = Snapshot
    /\ UNCHANGED <<parent, status, selected, geom, failRow, m_flat,
                   m_pLastSelected, m_dontMove>>

\* onUpdate with an UpdateItem notification for the active item (lines
\* 142-152): autoScroll() finds item to be the first playing item of its
\* walk (leaves in flat mode, every item otherwise) and calls ensureVisible
\* on it; the frame is rebuilt when the item is in the window.
AutoScroll(item) ==
    /\ ~fault
    /\ item \in Items /\ InTree(status, item)
    /\ m_flat => size(status, item) = 0
    /\ \E r \in ensureVisible(m_pImage, status, selected, expanded, m_firstPos,
                              m_dontMove, pos, item) :
        \E mk \in { IF isItemVisible(status, r.ex, r.first, item)
                     THEN MakeImage(r.img, status, selected, r.ex, r.first)
                     ELSE [img |-> r.img, fault |-> FALSE] } :
            /\ expanded' = r.ex
            /\ pos' = r.pos
            /\ m_firstPos' = r.first
            /\ m_pImage' = mk.img
            /\ fault' = (r.fault \/ mk.fault)
            /\ ev' = Event("AutoScroll", item, 0, r.scrolled)
    /\ pre' = Snapshot
    /\ UNCHANGED <<parent, status, selected, geom, failRow, m_flat,
                   m_pLastSelected, m_dontMove>>

\* An activation loop that invokes the action of every item it visits up to
\* the last selected one.
RECURSIVE EnterLoopAll(_, _, _, _)
EnterLoopAll(P, it, last, acts) ==
    IF it = End THEN acts
    ELSE IF it = last THEN Append(acts, it)
    ELSE EnterLoopAll(P, NextIn(P, it), last, Append(acts, it))

\* The loop of lines 365-470 for KEY_ENTER and ' ', from the item it on.
RECURSIVE EnterLoop(_, _, _, _)
EnterLoop(P, it, last, acts) ==
    IF it = End THEN acts
    ELSE EnterLoop(P, NextIn(P, it), last,
                   IF it = last THEN Append(acts, it) ELSE acts)

\* handleEvent, "key:down" with KEY_ENTER or ' '
KeyEnter ==
    /\ ~fault
    /\ \E acts \in { EnterLoop(PartSet(status, expanded), Start(status, expanded),
                                m_pLastSelected, <<>>) } :
           KeyTail("KeyEnter", selected, expanded, m_pLastSelected, NULL, FALSE, acts)

\* Lines 278-287: the last unselected item before m_pLastSelected, the
\* traversal start when there is none.
RECURSIVE FindItSel(_, _, _, _, _)
FindItSel(P, it, sel, last, it_sel) ==
    IF it = End \/ it = last THEN it_sel
    ELSE FindItSel(P, NextIn(P, it), sel, last,
                   IF ~sel[it] THEN it ELSE it_sel)

\* m_rTree.delSelected(), first half: every selected item is marked deleted.
MarkSelected(st, sel) ==
    [ i \in DOMAIN st |-> IF st[i] # "gone" /\ sel[i] THEN "deleted" ELSE st[i] ]

\* m_rTree.delSelected(), second half, after the DeleteItem notification:
\* the marked items leave the model, each with its subtree.
RemoveDeleted(st) ==
    [ i \in DOMAIN st |->
        IF \E a \in DOMAIN st : st[a] = "deleted" /\ IsAncOrSelf(parent, a, i)
        THEN "gone" ELSE st[i] ]

\* Lines 293-301: the last selected item of the traversal, NULL without one.
LastSelectedIn(st, sel, ex) ==
    LET S == { i \in PartSet(st, ex) : sel[i] }
    IN  IF S = {} THEN NULL ELSE Max(S)

\* handleEvent, "key:down" with KEY_DELETE.  Selecting through it_sel when
\* it is end() or an item the deletion removed is undefined: the write
\* changes no item of the model.  Each intermediate value is bound once.
KeyDelete ==
    /\ ~fault
    /\ \E it_sel \in { FindItSel(PartSet(status, expanded), Start(status, expanded),
                                 selected, m_pLastSelected, Start(status, expanded)) },
          st1 \in { MarkSelected(status, selected) } :
        \E st2 \in { RemoveDeleted(st1) },
           marked \in { { i \in DOMAIN st1 : st1[i] = "deleted" } } :
          \E last1 \in { LastSelectedIn(st2, selected, expanded) } :
            \E lost \in { last1 = NULL /\ (it_sel = End \/ Dangling(st2, it_sel)) } :
              \E sel2 \in { IF last1 = NULL /\ ~lost
                             THEN [selected EXCEPT ![it_sel] = TRUE] ELSE selected },
                 id \in IF marked = {} THEN DOMAIN st1 ELSE marked :
                \E h \in { HandleDelete(m_pImage, st1, selected, expanded,
                                         m_firstPos, id) } :
                  \E mk \in { MakeImage(h.img, st2, sel2, expanded, h.first) } :
                     /\ status' = st2
                     /\ selected' = sel2
                     /\ m_pLastSelected' = IF last1 = NULL THEN it_sel ELSE last1
                     /\ m_firstPos' = h.first
                     /\ m_pImage' = mk.img
                     /\ fault' = (h.fault \/ mk.fault \/ lost)
                     /\ ev' = Event("KeyDelete", it_sel, 0, lost)
    /\ pre' = Snapshot
    /\ UNCHANGED <<parent, expanded, pos, geom, failRow, m_flat, m_dontMove>>

----------------------------------------------------------------------------
(* Initial states.                                                         *)

AllLive(n) == [i \in 1..n |-> "live"]
NoneSet(n) == [i \in 1..n |-> FALSE]

\* A control laid out over a tree of at most MaxItems items, nothing
\* selected, the anchor on any item of the traversal (as scrolling leaves it).
InitDel ==
    /\ parent \in UNION { Shapes(n) : n \in 1..MaxItems }
    /\ status = AllLive(Len(parent))
    /\ selected = NoneSet(Len(parent))
    /\ expanded \in [1..Len(parent) -> BOOLEAN]
    /\ pos = <<1, 1>>
    /\ geom = 2
    /\ failRow = 0
    /\ m_flat \in BOOLEAN
    /\ m_firstPos \in PartSet(status, expanded)
    /\ m_pLastSelected = NULL
    /\ m_dontMove = FALSE
    /\ m_pImage = MakeImage(NoImage, status, selected, expanded, m_firstPos).img
    /\ fault = FALSE
    /\ ev = Event("Init", 0, 0, FALSE)
    /\ pre = Snapshot

NextDel ==
    \/ \E i \in Items : MarkDeleted(i)
    \/ \E id \in Items : OnDeleteItem(id)

SpecDel == InitDel /\ [][NextDel]_vars

\* The control as constructed (no geometry yet, anchor at the traversal
\* start, position 1.0) over a list of at most MaxLeaves leaves or a tree of
\* at most MaxItems items.
InitPos ==
    /\ parent \in { FlatShape(n) : n \in 1..MaxLeaves }
                  \cup UNION { Shapes(n) : n \in 1..MaxItems }
    /\ status = AllLive(Len(parent))
    /\ selected = NoneSet(Len(parent))
    /\ expanded \in [1..Len(parent) -> BOOLEAN]
    /\ \A i \in 1..Len(parent) : Children(status, i) = {} => ~expanded[i]
    /\ pos = <<1, 1>>
    /\ geom = NoPos
    /\ failRow = 0
    /\ m_flat \in BOOLEAN
    /\ m_firstPos = Start(status, expanded)
    /\ m_pLastSelected = NULL
    /\ m_dontMove = FALSE
    /\ m_pImage = NoImage
    /\ fault = FALSE
    /\ ev = Event("Init", 0, 0, FALSE)
    /\ pre = Snapshot

NextPos ==
    \/ \E v \in Fracs : SetPosition(v)
    \/ \E h \in 0..MaxRows : OnResize(h)

SpecPos == InitPos /\ [][NextPos]_vars

\* No event has been handled yet.
Idle == ev.op = "Init"

\* A laid-out control over a tree of at most MaxItems live items, in any
\* state of selection the events can leave: any items selected, any item or
\* none last selected, any node with children expanded (in hierarchical
\* mode, where expansion decides the traversal), the anchor on any item of
\* the traversal.
InitSel ==
    /\ parent \in UNION { Shapes(n) : n \in 1..MaxItems }
    /\ status = AllLive(Len(parent))
    /\ selected \in [1..Len(parent) -> BOOLEAN]
    /\ m_flat \in BOOLEAN
    /\ expanded \in [1..Len(parent) -> BOOLEAN]
    /\ \A i \in 1..Len(parent) :
          expanded[i] => (~m_flat /\ Children(status, i) # {})
    /\ pos = <<1, 1>>
    /\ geom = 2
    /\ failRow = 0
    /\ m_firstPos \in PartSet(status, expanded)
    /\ m_pLastSelected \in (1..Len(parent)) \cup {NULL}
    /\ m_dontMove = FALSE
    /\ m_pImage = MakeImage(NoImage, status, selected, expanded, m_firstPos).img
    /\ fault = FALSE
    /\ ev = Event("Init", 0, 0, FALSE)
    /\ pre = Snapshot

\* One pointer event, handled in any of these states.
NextMouse ==
    \/ Idle /\ \E yPos \in 0..MaxItems : MouseShift(yPos)
    \/ Idle /\ \E yPos \in 0..MaxItems, onIcon \in BOOLEAN : MousePlain(yPos, onIcon)
    \/ Idle /\ \E yPos \in 0..MaxItems : MouseCtrl(yPos)
    \/ Idle /\ \E yPos \in 0..MaxItems : MouseCtrlShift(yPos)

SpecMouse == InitSel /\ [][NextMouse]_vars

\* A laid-out control over a tree of at most MaxItems live items: any
\* items selected, any expanded, an item of the traversal or none last
\* selected, the anchor on any item of the traversal.
InitKeys ==
    /\ parent \in UNION { Shapes(n) : n \in 1..MaxItems }
    /\ status = AllLive(Len(parent))
    /\ selected \in [1..Len(parent) -> BOOLEAN]
    /\ m_flat \in BOOLEAN
    /\ expanded \in [1..Len(parent) -> BOOLEAN]
    /\ pos = <<1, 1>>
    /\ geom = 2
    /\ failRow = 0
    /\ m_firstPos \in PartSet(status, expanded)
    /\ m_pLastSelected \in PartSet(status, expanded) \cup {NULL}
    /\ m_dontMove = FALSE
    /\ m_pImage = MakeImage(NoImage, status, selected, expanded, m_firstPos).img
    /\ fault = FALSE
    /\ ev = Event("Init", 0, 0, FALSE)
    /\ pre = Snapshot

\* One key, handled in any of these states.
NextKeys ==
    \/ Idle /\ KeyUp
    \/ Idle /\ KeyDown
    \/ Idle /\ KeyLeft
    \/ Idle /\ KeyRight
    \/ Idle /\ KeyDelete

SpecKeys == InitKeys /\ [][NextKeys]_vars

\* A laid-out control whose anchor is the one the position variable, at any
\* value a scrollbar gave it, resolved to; the last selected item, if any,
\* is the selected one.
InitExpand ==
    /\ parent \in UNION { Shapes(n) : n \in 1..MaxItems }
    /\ status = AllLive(Len(parent))
    /\ m_flat \in BOOLEAN
    /\ expanded \in [1..Len(parent) -> BOOLEAN]
    /\ pos \in Fracs
    /\ geom = 2
    /\ failRow = 0
    /\ m_firstPos \in ResolveAnchor(status, expanded, pos)
    /\ m_pLastSelected \in PartSet(status, expanded) \cup {NULL}
    /\ selected = [i \in 1..Len(parent) |-> i = m_pLastSelected]
    /\ m_dontMove = FALSE
    /\ m_pImage = MakeImage(NoImage, status, selected, expanded, m_firstPos).img
    /\ fault = FALSE
    /\ ev = Event("Init", 0, 0, FALSE)
    /\ pre = Snapshot

\* One event that can change an expansion flag, handled in any of these
\* states.
NextExpand ==
    \/ Idle /\ KeyRight
    \/ Idle /\ KeyLeft
    \/ Idle /\ \E yPos \in 0..MaxItems, onIcon \in BOOLEAN : MousePlain(yPos, onIcon)

SpecExpand == InitExpand /\ [][NextExpand]_vars

\* The control as constructed over a tree of at most MaxItems items of which
\* at most one is selected: no position, no frame, the anchor on the
\* traversal start.
InitFrame ==
    /\ parent \in UNION { Shapes(n) : n \in 1..MaxItems }
    /\ status = AllLive(Len(parent))
    /\ selected \in { [i \in 1..Len(parent) |-> i = k] : k \in 0..Len(parent) }
    /\ m_flat \in BOOLEAN
    /\ expanded \in { e \in [1..Len(parent) -> BOOLEAN] :
                        \A i \in 1..Len(parent) :
                            e[i] => Children(status, i) # {} }
    /\ pos = <<1, 1>>
    /\ geom = NoPos
    /\ failRow = 0
    /\ m_firstPos = Start(status, expanded)
    /\ m_pLastSelected = NULL
    /\ m_dontMove = FALSE
    /\ m_pImage = NoImage
    /\ fault = FALSE
    /\ ev = Event("Init", 0, 0, FALSE)
    /\ pre = Snapshot

\* Layout changes, frame rebuilds and label failures, in any order.
NextFrame ==
    \/ \E h \in 1..MaxRows : OnResize(h)
    \/ UnsetLayout
    \/ OnPositionChange
    \/ \E k \in 0..MaxRows : FontFails(k)

SpecFrame == InitFrame /\ [][NextFrame]_vars

\* The active item changes, in any of the states of InitExpand.
NextShow == Idle /\ \E item \in 1..MaxItems : AutoScroll(item)

\* One activation, by key or by double click, in any of the states of
\* InitSel.
NextActivate ==
    \/ Idle /\ KeyEnter
    \/ Idle /\ \E yPos \in 0..MaxItems : MouseDblClick(yPos)

SpecActivate == InitSel /\ [][NextActivate]_vars

SpecShow == InitExpand /\ [][NextShow]_vars

\* A control of 1 to MaxRows rows over a list of at most MaxPage items or a
\* tree of at most MaxItems items, nothing selected, the anchor the one the
\* position variable resolved to.
InitPage ==
    /\ parent \in { FlatShape(n) : n \in 1..MaxPage }
                  \cup UNION { Shapes(n) : n \in 1..MaxItems }
    /\ status = AllLive(Len(parent))
    /\ selected = NoneSet(Len(parent))
    /\ m_flat \in BOOLEAN
    /\ expanded \in IF Len(parent) > MaxItems
                     THEN { NoneSet(Len(parent)) }
                     ELSE { e \in [1..Len(parent) -> BOOLEAN] :
                              \A i \in 1..Len(parent) :
                                  e[i] => Children(status, i) # {} }
    /\ pos \in Fracs
    /\ geom \in 1..MaxRows
    /\ failRow = 0
    /\ m_firstPos \in ResolveAnchor(status, expanded, pos)
    /\ m_pLastSelected = NULL
    /\ m_dontMove = FALSE
    /\ m_pImage = MakeImage(NoImage, status, selected, expanded, m_firstPos).img
    /\ fault = FALSE
    /\ ev = Event("Init", 0, 0, FALSE)
    /\ pre = Snapshot

NextPage ==
    \/ Idle /\ KeyPageDown
    \/ Idle /\ KeyPageUp

SpecPage == InitPage /\ [][NextPage]_vars

----------------------------------------------------------------------------
(* Claims.                                                                 *)

SomeLive == \E i \in PartSet(status, expanded) : status[i] = "live"

\* C1: after a DeleteItem notification is handled, the anchor does not
\* reference an item whose deleted flag is set, as long as a participating
\* item is still live.
C1_AnchorNeverDeleted ==
    (ev.op = "DeleteItem" /\ SomeLive)
        => ~(m_firstPos \in Items /\ status[m_firstPos] = "deleted")


Abs(x) == IF x < 0 THEN -x ELSE x

ExcessNow == Count(status, expanded) - maxItems

\* The position handler ran on a changed value with the guard clear.
PositionChanged == ev.op = "SetPosition" /\ pos # pre.pos /\ ~m_dontMove

\* C3: with more participating items than rows, the value v' recomputed
\* from the rank of the anchor the handler resolved from v lies within
\* 1/excess of v.
C3_RoundTrip ==
    (PositionChanged /\ ExcessNow > 0 /\ maxItems >= 1
        /\ m_firstPos \in PartSet(status, expanded))
    => LET v2 == RecomputedPos(status, expanded, m_firstPos)
       IN  ExcessNow * Abs(pos[1] * v2[2] - v2[1] * pos[2]) <= pos[2] * v2[2]

\* C4: the handler puts the anchor on the traversal start when nothing
\* exceeds the viewport, and otherwise on the participating item of rank
\* round((1 - value) * excess) + 1; with 10 leaves and 4 rows in flat mode,
\* 1.0 gives leaf 1 and 0.0 gives leaf 7.
C4_PositionToAnchor ==
    PositionChanged =>
        /\ ExcessNow <= 0 => m_firstPos = Start(status, expanded)
        /\ ExcessNow > 0 =>
            /\ m_firstPos \in PartSet(status, expanded)
            /\ 2 * Abs((Rank(status, expanded, m_firstPos) - 1) * pos[2]
                       - (pos[2] - pos[1]) * ExcessNow) <= pos[2]
        /\ (m_flat /\ Count(status, expanded) = 10 /\ maxItems = 4) =>
            /\ pos = <<1, 1>> => m_firstPos = 1
            /\ pos = <<0, 1>> => m_firstPos = 7


PartNow == PartSet(status, expanded)
PartPre == PartSet(pre.status, pre.expanded)
RankNow(i) == Rank(status, expanded, i)

Between(x, a, b) == (a <= x /\ x <= b) \/ (b <= x /\ x <= a)

\* C5: after a shift+left-press on the participating item H with the
\* participating item L last selected (H = L included), exactly the
\* participating items whose rank lies between those of L and H are selected.
C5_ShiftRange ==
    (ev.op = "MouseShift" /\ ev.item \in PartNow /\ pre.last \in PartNow)
    => \A i \in PartNow :
          selected[i] <=> Between(RankNow(i), RankNow(pre.last), RankNow(ev.item))

\* C6: a shift+left-press on B with A last selected leaves the selected
\* flags that a shift+left-press on A with B last selected leaves, from
\* the same prior selection.
C6_ShiftSymmetric ==
    (ev.op = "MouseShift" /\ ev.item \in PartNow /\ pre.last \in PartNow
        /\ RankNow(pre.last) >= RankNow(pre.first))
    => selected = ShiftSelect(pre.status, pre.selected, pre.expanded, pre.first,
                              ev.item, RankNow(pre.last) - RankNow(pre.first))

C6_Witness ==
    /\ ev.op = "MouseShift" /\ ev.item \in PartNow /\ pre.last \in PartNow
    /\ RankNow(pre.last) >= RankNow(pre.first)
    /\ RankNow(ev.item) > RankNow(pre.last)
    /\ \E i \in PartNow : pre.selected[i] /\ ~selected[i]
    /\ \E i \in PartNow : ~pre.selected[i] /\ selected[i]

\* The plain press toggled the hit item's expansion instead of selecting it.
Toggled == ev.item # End /\ size(status, ev.item) > 0 /\ ev.flag /\ ~m_flat

\* C7: after a plain left-press that hits a participating item outside the
\* disclosure region, that item is the only selected participating item and
\* is last selected; the expansion flags and the anchor are unchanged.
C7_PlainPress ==
    (ev.op = "MousePlain" /\ ev.item \in PartPre /\ ~Toggled)
    => /\ \A i \in PartNow : selected[i] <=> i = ev.item
       /\ m_pLastSelected = ev.item
       /\ expanded = pre.expanded
       /\ m_firstPos = pre.first

C7_Witness ==
    /\ ev.op = "MousePlain" /\ ev.item \in PartPre /\ ~Toggled
    /\ ev.flag /\ ~m_flat
    /\ pre.last # ev.item
    /\ \E i \in PartNow : i # ev.item /\ pre.selected[i]


\* The items that are in the model and not marked deleted.
Surviving(i) == i \in PartNow /\ status[i] = "live"

\* C2: after the Delete key, handled with at least one item selected and
\* leaving a participating item, exactly one surviving participating item
\* is selected and last-selected references it.
C2_OneSelectedAfterDelete ==
    (ev.op = "KeyDelete" /\ (\E i \in DOMAIN pre.selected : pre.selected[i])
        /\ (\E i \in PartNow : Surviving(i)))
    => /\ Cardinality({ i \in PartNow : Surviving(i) /\ selected[i] }) = 1
       /\ Surviving(m_pLastSelected)
       /\ selected[m_pLastSelected]

\* Exactly the item i is selected among the participating ones, and it is
\* last selected.
OnlySelected(P, sel, last, i) ==
    /\ i \in P
    /\ last = i
    /\ \A j \in P : sel[j] <=> j = i

PreRank == Rank(pre.status, pre.expanded, pre.last)
PreCount == Count(pre.status, pre.expanded)

\* C8: with the last-selected item the only selected participating item,
\* at rank r of N, Down selects exactly the item of rank r + 1 (r < N) and Up
\* exactly the item of rank r - 1 (r > 1), last-selected following; at the
\* ends nothing changes; so exactly one participating item stays selected.
C8_UpDownStep ==
    (ev.op \in {"KeyUp", "KeyDown"}
        /\ OnlySelected(PartPre, pre.selected, pre.last, pre.last))
    => LET r      == PreRank
           target == IF ev.op = "KeyDown"
                     THEN (IF r < PreCount THEN r + 1 ELSE r)
                     ELSE (IF r > 1 THEN r - 1 ELSE r)
           item   == ItemAt(pre.status, pre.expanded, target)
       IN  /\ OnlySelected(PartPre, selected, m_pLastSelected, item)
           /\ Cardinality({ i \in PartNow : selected[i] }) = 1

C8_Witness ==
    /\ ev.op = "KeyDown"
    /\ OnlySelected(PartPre, pre.selected, pre.last, pre.last)
    /\ PreRank < PreCount
    /\ m_pLastSelected # pre.last
    /\ ev.flag

\* C9: one Right key performs one step on the last-selected item: a
\* collapsed item is expanded, selection unchanged; an expanded item with
\* children hands selection and last-selected to its first child, nothing
\* else changing (the child is neither expanded nor activated); an expanded
\* item without children is activated once, selection unchanged.
C9_RightOneStep ==
    (ev.op = "KeyRight" /\ pre.last \in PartPre)
    => LET L     == pre.last
           kids  == Children(pre.status, L)
       IN  /\ ~pre.expanded[L] =>
                /\ expanded = [pre.expanded EXCEPT ![L] = TRUE]
                /\ selected = pre.selected /\ m_pLastSelected = L
                /\ ev.acts = <<>>
           /\ (pre.expanded[L] /\ kids # {}) =>
                /\ selected = [pre.selected EXCEPT ![L] = FALSE, ![Min(kids)] = TRUE]
                /\ m_pLastSelected = Min(kids)
                /\ expanded = pre.expanded
                /\ ev.acts = <<>>
           /\ (pre.expanded[L] /\ kids = {}) =>
                /\ ev.acts = <<L>>
                /\ selected = pre.selected /\ m_pLastSelected = L
                /\ expanded = pre.expanded

RankValue(st, ex, it) ==
    Frac(Count(st, ex) - Rank(st, ex, it), Count(st, ex) - 1)

\* The scenario of C11: hierarchical mode, one top-level node with two
\* children, collapsed, selected and last selected.
ExpandScenario ==
    /\ ev.op = "KeyRight"
    /\ ~m_flat
    /\ parent = <<Root, 1, 1>>
    /\ ~pre.expanded[1]
    /\ pre.last = 1
    /\ pre.selected = [i \in 1..3 |-> i = 1]

\* C11: in that scenario the Right key makes two more items participate,
\* leaves the position variable at the value recomputed from the anchor's
\* rank, and leaves the selected flags and last-selected unchanged.
C11_ExpandScenario ==
    ExpandScenario =>
        /\ Count(status, expanded) = PreCount + 2
        /\ pos = RankValue(status, expanded, m_firstPos)
        /\ selected = pre.selected
        /\ m_pLastSelected = pre.last

C11_Witness ==
    /\ ExpandScenario
    /\ pos # pre.pos
    /\ Count(status, expanded) = 3


\* The event handled changed an expansion flag.
ExpansionChanged ==
    ev.op \in {"KeyRight", "KeyLeft", "MousePlain"} /\ expanded # pre.expanded

\* C12: after every Right, Left or pointer press that changed an expansion
\* flag, the position variable holds the value computed from the anchor's
\* rank among the new participating items, the anchor is the one the event
\* found (the write was guarded), and the guard is clear.
C12_GuardedRecompute ==
    ExpansionChanged =>
        /\ m_firstPos = pre.first
        /\ ~m_dontMove
        /\ m_firstPos \in PartNow
        /\ pos = RankValue(status, expanded, m_firstPos)


\* ensureVisible( ev.item ) ran, with the ranks it read.
ShownRank == Rank(status, expanded, ev.item)
ShownAnchorRank == Rank(status, expanded, pre.first)
ShownInside ==
    ShownRank >= ShownAnchorRank /\ ShownRank <= ShownAnchorRank + maxItems - 1

\* C13, as stated: outside the window the position variable is set to
\* 1.0 - rank(item) / (count - 1) with the 1-based rank.
C13_AsStated ==
    (ev.op = "AutoScroll" /\ ~ShownInside)
        => pos = Clamp(OneMinus(ShownRank, Count(status, expanded) - 1))

\* C13, amended: with the ranks taken after the item's ancestors are
\* expanded, ensureVisible leaves position and anchor alone and reports
\* false when the item's rank is inside the window; otherwise it sets the
\* position variable to 1.0 - (rank(item) - 1) / (count - 1) and reports
\* true.
C13_EnsureVisible ==
    ev.op = "AutoScroll" =>
        /\ ShownInside => (pos = pre.pos /\ m_firstPos = pre.first /\ ~ev.flag)
        /\ ~ShownInside =>
              /\ pos = Clamp(OneMinus(ShownRank - 1, Count(status, expanded) - 1))
              /\ ev.flag

C13_Witness ==
    /\ ev.op = "AutoScroll" /\ ~ShownInside /\ ev.flag
    /\ expanded # pre.expanded
    /\ pos # pre.pos
    /\ m_firstPos # pre.first


\* The participating items after the anchor the Page-down key found, and
\* the last participating item.
PageRemaining == PreCount - Rank(pre.status, pre.expanded, pre.first)
LastItem == ItemAt(pre.status, pre.expanded, PreCount)

\* The scenario of C14: 20 participating items, 4 rows, anchor at rank 1.
PageScenario ==
    /\ ev.op = "KeyPageDown"
    /\ PreCount = 20 /\ maxItems = 4
    /\ Rank(pre.status, pre.expanded, pre.first) = 1

C15_CtrlToggle ==
    (ev.op = "MouseCtrl" /\ ev.item # End)
    => /\ selected = [pre.selected EXCEPT ![ev.item] = ~pre.selected[ev.item]]
       /\ m_pLastSelected = ev.item
       /\ expanded = pre.expanded
       /\ m_firstPos = pre.first

C15_Witness ==
    /\ ev.op = "MouseCtrl" /\ ev.item # End
    /\ pre.selected[ev.item] /\ ~selected[ev.item]
    /\ pre.last # ev.item
    /\ \E i \in PartNow : i # ev.item /\ selected[i]

\* C16: after a ctrl+shift+left-press on the participating item H with
\* the participating item L last selected, a participating item is
\* selected exactly when it was selected before or its rank lies between
\* those of L and H.
C16_CtrlShiftExtend ==
    (ev.op = "MouseCtrlShift" /\ ev.item \in PartNow /\ pre.last \in PartNow)
    => \A i \in PartNow :
          selected[i] <=>
              (pre.selected[i]
                 \/ Between(RankNow(i), RankNow(pre.last), RankNow(ev.item)))


\* The control changed no selected flag, no expansion flag, and none of
\* last-selected, anchor and position variable.
ControlUnchanged ==
    /\ selected = pre.selected
    /\ expanded = pre.expanded
    /\ m_pLastSelected = pre.last
    /\ m_firstPos = pre.first
    /\ pos = pre.pos

\* C17, as stated: Enter invokes the action of the last-selected item
\* exactly once, a double click that of the hit item exactly once, and
\* the control's state is unchanged.
C17_AsStated ==
    /\ (ev.op = "KeyEnter" /\ pre.last \in Items)
          => (ev.acts = <<pre.last>> /\ ControlUnchanged)
    /\ (ev.op = "MouseDblClick" /\ ev.item # End)
          => (ev.acts = <<ev.item>> /\ ControlUnchanged)

\* C17, amended: Enter invokes the action of the last-selected item
\* exactly once when that item participates in the traversal and invokes
\* nothing otherwise; a double click invokes the action of the hit item
\* exactly once; in each case the control's state is unchanged.
C17_Activation ==
    /\ ev.op = "KeyEnter"
          => /\ ev.acts = IF pre.last \in PartPre THEN <<pre.last>> ELSE <<>>
             /\ ControlUnchanged
    /\ (ev.op = "MouseDblClick" /\ ev.item # End)
          => (ev.acts = <<ev.item>> /\ ControlUnchanged)

C17_Witness ==
    /\ ev.op = "KeyEnter"
    /\ ev.acts = <<pre.last>>
    /\ RankNow(pre.last) > 1
    /\ \E i \in PartNow : selected[i] /\ i # pre.last


\* Last-selected references a selected item whenever a participating item
\* is selected.
LastSelectedOk(st, sel, ex, last) ==
    (\E i \in PartSet(st, ex) : sel[i]) => (last \in DOMAIN sel /\ sel[last])

\* C18: a pointer press (plain, ctrl, shift, ctrl+shift) handled in a
\* state where last-selected references a selected item whenever a
\* participating item is selected, leaves such a state.
C18_LastSelectedInvariant ==
    (ev.op \in {"MousePlain", "MouseCtrl", "MouseShift", "MouseCtrlShift"}
        /\ LastSelectedOk(pre.status, pre.selected, pre.expanded, pre.last))
    => LastSelectedOk(status, selected, expanded, m_pLastSelected)


\* C19: a frame rebuild requested while the control has no position
\* leaves the cached frame as it was: neither freed nor replaced.
C19_NoGeometryNoOp ==
    (ev.op = "PositionChange" /\ geom = NoPos) => m_pImage = pre.img

\* The rows the rebuild had to draw include the one whose label fails.
LabelFailed ==
    /\ ev.op = "PositionChange"
    /\ geom # NoPos
    /\ failRow \in 1..Len(RenderRows(status, expanded, m_firstPos, geom))

\* C20: when a label fails to draw during a rebuild, the cached frame
\* afterwards is the frame that was cached before.
C20_NoPartialCommit ==
    LabelFailed => m_pImage = pre.img


\* C21: when the Delete key leaves no participating item, last-selected
\* is null afterwards and the handler has dereferenced no removed item and
\* not the end sentinel.
C21_EmptyAfterDelete ==
    (ev.op = "KeyDelete" /\ PartNow = {})
        => (m_pLastSelected = NULL /\ ~fault)


\* The participating items before the anchor the notification found that
\* are not marked deleted.
LivePredecessors ==
    { j \in PartPre : j < pre.first /\ pre.status[j] # "deleted" }

\* C22: a DeleteItem notification leaves an anchor that is not deleted
\* where it is, and moves a deleted one to the nearest item before it in
\* the traversal that is not deleted, or, without one, to the traversal
\* start of the active mode.
C22_AnchorHealing ==
    (ev.op = "DeleteItem" /\ pre.first \in PartPre)
    => m_firstPos =
         IF pre.status[pre.first] # "deleted" THEN pre.first
         ELSE IF LivePredecessors # {} THEN Max(LivePredecessors)
         ELSE Start(pre.status, pre.expanded)


\* C23: in every quiescent state with a participating item, the anchor is
\* a participating item of the active mode.
C23_AnchorParticipates ==
    PartNow # {} => m_firstPos \in PartNow


\* C24: with at least one row and a participating anchor, once
\* ensureVisible( item ) has returned and the position change it caused has
\* been handled, the rank of the participating item lies inside the window
\* [anchorRank, anchorRank + maxItems - 1] of the resulting anchor.
C24_ShownInWindow ==
    (/\ ev.op = "AutoScroll"
     /\ maxItems >= 1
     /\ pre.first \in PartPre
     /\ ev.item \in PartNow)
    => /\ RankNow(ev.item) >= RankNow(m_firstPos)
       /\ RankNow(ev.item) <= RankNow(m_firstPos) + maxItems - 1


\* The participating items after the anchor that are marked deleted, and the
\* item makeImage draws in row k (End when the row stays empty).
DeletedAfterAnchor ==
    { j \in PartNow : j > m_firstPos /\ status[j] = "deleted" }

DrawnAt(k) ==
    LET rows == RenderRows(status, expanded, m_firstPos, k + 1)
    IN  IF Len(rows) > k THEN rows[k + 1] ELSE End

HitAt(k) == findItemAtPos(status, expanded, m_firstPos, k)

\* C25: once a delete notification has been handled and participating items
\* after the anchor are marked deleted, findItemAtPos( k ) is for every row
\* k the item makeImage draws in row k, and is never a deleted item.
C25_HitMatchesRender ==
    (/\ ev.op = "DeleteItem"
     /\ m_firstPos \in PartNow
     /\ DeletedAfterAnchor # {})
    => \A k \in 0..MaxRows :
          /\ HitAt(k) = DrawnAt(k)
          /\ HitAt(k) # End => status[HitAt(k)] # "deleted"


\* The rank of the anchor before the event.
AnchorRankPre == Rank(pre.status, pre.expanded, pre.first)

\* C26: from a participating anchor of rank a with at least one row,
\* Page-down leaves the anchor at a rank >= a and Page-up at a rank <= a;
\* neither walk leaves the traversal (no step onto the end sentinel, and
\* Page-up from the traversal start leaves the anchor there), and the
\* resulting anchor has a rank within 1..participatingCount.
C26_PagingMonotone ==
    (/\ ev.op \in {"KeyPageDown", "KeyPageUp"}
     /\ maxItems >= 1
     /\ pre.first \in PartPre)
    => /\ ev.item # End
       /\ ~fault
       /\ m_firstPos \in PartNow
       /\ ev.op = "KeyPageDown" => RankNow(m_firstPos) >= AnchorRankPre
       /\ ev.op = "KeyPageUp" => RankNow(m_firstPos) <= AnchorRankPre
       /\ (ev.op = "KeyPageUp" /\ AnchorRankPre = 1)
             => m_firstPos = Start(status, expanded)

====
